---- MODULE Spec2Model ----
(***************************************************************************)
(* Model of src/model.rs of nom-bibtex: Bibtex::parse turns the raw entry  *)
(* stream produced by the grammar (raw_parse) into a resolved Bibtex       *)
(* document.  The grammar is an external collaborator: the model starts    *)
(* from the Vec<Entry> it returned.                                        *)
(*                                                                         *)
(* Strings are TLA+ strings (push_str is \o).  A tag key is a sequence of  *)
(* one-character strings, because to_lowercase acts on its characters.     *)
(***************************************************************************)
EXTENDS Naturals, Sequences, FiniteSets

(***************************************************************************)
(* Bounds of the explored inputs.                                          *)
(***************************************************************************)
\* Longest raw entry stream of the document-builder inputs.
MaxEntries == 3
\* Most Variable entries of the variable-resolver inputs.
MaxVars == 3

(***************************************************************************)
(* Data model: StringValueType, KeyValue, Entry, Bibliography, Result.     *)
(***************************************************************************)
Str(v) == [type |-> "Str", v |-> v]
Abbreviation(v) == [type |-> "Abbreviation", v |-> v]

KeyValue(key, value) == [key |-> key, value |-> value]

Variable(kv) == [kind |-> "Variable", kv |-> kv]
Comment(v) == [kind |-> "Comment", text |-> v]
Preamble(v) == [kind |-> "Preamble", value |-> v]
BibliographyEntry(entry_t, citation_key, tags) ==
    [kind |-> "Bibliography", entry_t |-> entry_t,
     citation_key |-> citation_key, tags |-> tags]

Bibliography(entry_type, citation_key, tags) ==
    [entry_type |-> entry_type, citation_key |-> citation_key, tags |-> tags]

Ok(v) == [kind |-> "Ok", v |-> v]
StringVariableNotFound(name) == [kind |-> "Err", name |-> name]
\* The call never returns: the recursion of expand_variables_value is unbounded.
NoReturn == [kind |-> "NoReturn"]

\* HashMap::new() and HashMap::insert (an existing key is overwritten).
EmptyMap == [k \in {} |-> ""]
MapInsert(m, k, v) == [x \in (DOMAIN m) \cup {k} |-> IF x = k THEN v ELSE m[x]]

TABLE_MONTHS ==
    << <<"jan", "January">>, <<"feb", "February">>, <<"mar", "March">>,
       <<"apr", "April">>, <<"may", "May">>, <<"jun", "June">>,
       <<"jul", "July">>, <<"aug", "August">>, <<"sep", "September">>,
       <<"oct", "October">>, <<"nov", "November">>, <<"dec", "December">> >>

(***************************************************************************)
(* str::to_lowercase on the ASCII letters.                                 *)
(***************************************************************************)
UpperCase == <<"A","B","C","D","E","F","G","H","I","J","K","L","M",
               "N","O","P","Q","R","S","T","U","V","W","X","Y","Z">>
LowerCase == <<"a","b","c","d","e","f","g","h","i","j","k","l","m",
               "n","o","p","q","r","s","t","u","v","w","x","y","z">>

CharToLowercase(c) ==
    IF \E n \in DOMAIN UpperCase : UpperCase[n] = c
    THEN LowerCase[CHOOSE n \in DOMAIN UpperCase : UpperCase[n] = c]
    ELSE c

ToLowercase(key) == [n \in DOMAIN key |-> CharToLowercase(key[n])]

(***************************************************************************)
(* Option values of Iterator::find and HashMap::get.                       *)
(***************************************************************************)
None == [kind |-> "None"]
Some(v) == [kind |-> "Some", v |-> v]

(***************************************************************************)
(* fill_variables, lines 109-115: the KeyValues of the Variable entries,   *)
(* in stream order.                                                        *)
(***************************************************************************)
RECURSIVE VariablesOf(_)
VariablesOf(es) ==
    IF es = <<>> THEN <<>>
    ELSE IF Head(es).kind = "Variable"
         THEN <<Head(es).kv>> \o VariablesOf(Tail(es))
         ELSE VariablesOf(Tail(es))

\* Mutant: the last declaration named v (rfind, or a map of the declarations).
FindVariable_Last(v, variables) ==
    IF \E n \in DOMAIN variables : variables[n].key = v
    THEN Some(variables[CHOOSE n \in DOMAIN variables :
                  /\ variables[n].key = v
                  /\ \A m \in (n + 1)..Len(variables) : variables[m].key # v])
    ELSE None

\* Mutant: a name that is not declared is looked up in the month table.
FindVariable_OrMonth(v, variables) ==
    IF \E n \in DOMAIN variables : variables[n].key = v
    THEN Some(variables[CHOOSE n \in DOMAIN variables :
                  /\ variables[n].key = v
                  /\ \A m \in 1..(n - 1) : variables[m].key # v])
    ELSE IF \E n \in DOMAIN TABLE_MONTHS : TABLE_MONTHS[n][1] = v
    THEN Some(KeyValue(v, <<Str(TABLE_MONTHS[CHOOSE n \in DOMAIN TABLE_MONTHS :
                                               TABLE_MONTHS[n][1] = v][2])>>))
    ELSE None

\* variables.iter().find(|&x| *v == x.key): the first declaration named v.
FindVariable(v, variables) ==
    IF \E n \in DOMAIN variables : variables[n].key = v
    THEN Some(variables[CHOOSE n \in DOMAIN variables :
                  /\ variables[n].key = v
                  /\ \A m \in 1..(n - 1) : variables[m].key # v])
    ELSE None

(***************************************************************************)
(* expand_variables_value.  depth counts the calls that are active above   *)
(* this one, each of them expanding one declaration of variables.  When    *)
(* depth reaches Len(variables) some declaration is being expanded inside  *)
(* its own expansion; the same arguments make the same call again, so the  *)
(* recursion never ends and the call does not return.                      *)
(***************************************************************************)
RECURSIVE ExpandVariablesValue(_, _, _)
RECURSIVE ExpandVariablesChunks(_, _, _, _, _)
ExpandVariablesChunks(var_values, n, result_value, variables, depth) ==
    IF n > Len(var_values) THEN Ok(result_value)
    ELSE LET chunck == var_values[n] IN
         IF chunck.type = "Str"
         THEN ExpandVariablesChunks(var_values, n + 1,
                                    result_value \o chunck.v, variables, depth)
         ELSE LET var == FindVariable(chunck.v, variables) IN
              IF var.kind = "None" THEN StringVariableNotFound(chunck.v)
              ELSE LET inner == ExpandVariablesValue(var.v.value, variables,
                                                     depth + 1) IN
                   IF inner.kind # "Ok" THEN inner
                   ELSE ExpandVariablesChunks(var_values, n + 1,
                                              result_value \o inner.v,
                                              variables, depth)

ExpandVariablesValue(var_values, variables, depth) ==
    IF depth >= Len(variables) THEN NoReturn
    ELSE ExpandVariablesChunks(var_values, 1, "", variables, depth)

\* Mutant: a single-pass resolver, which looks a name up among the declarations
\* seen so far.
ExpandVariable_SeenSoFar(variables, n) ==
    ExpandVariablesValue(variables[n].value, SubSeq(variables, 1, n), 0)

\* Mutant: an undeclared name is swallowed instead of propagated by `?`.
ExpandVariable_Lenient(variables, n) ==
    LET val == ExpandVariablesValue(variables[n].value, variables, 0)
    IN IF val.kind = "Err" THEN Ok("") ELSE val

\* fill_variables, line 120: the expansion of the n-th declaration.
ExpandVariable(variables, n) ==
    ExpandVariablesValue(variables[n].value, variables, 0)

(***************************************************************************)
(* expand_str_abbreviations.  order is the order in which the HashMap      *)
(* bibtex.variables yields its entries to iter(): any enumeration of its   *)
(* keys.                                                                   *)
(***************************************************************************)
IterationOrders(map) ==
    {o \in [1..Cardinality(DOMAIN map) -> DOMAIN map] :
        \A a, b \in DOMAIN o : a # b => o[a] # o[b]}

\* Mutant: the month table is consulted before the variables.
IterFind_MonthsFirst(v, map, order) ==
    IF \E n \in DOMAIN TABLE_MONTHS : TABLE_MONTHS[n][1] = v THEN None
    ELSE IF v \in DOMAIN map THEN Some(<<v, map[v]>>)
    ELSE None

\* Mutant: the entry the mapping yields first is taken for a declared name.
IterFind_FirstYielded(v, map, order) ==
    IF v \in DOMAIN map THEN Some(<<order[1], map[order[1]]>>) ELSE None

\* bibtex.variables.iter().find(|&x| &v == x.0)
IterFind(v, map, order) ==
    IF \E n \in DOMAIN order : order[n] = v
    THEN LET k == order[CHOOSE n \in DOMAIN order :
                      /\ order[n] = v
                      /\ \A m \in 1..(n - 1) : order[m] # v]
         IN Some(<<k, map[k]>>)
    ELSE None

\* bibtex.const_map.get(v.as_str())
ConstMapGet(const_map, v) ==
    IF v \in DOMAIN const_map THEN Some(const_map[v]) ELSE None

RECURSIVE ExpandStrChunks(_, _, _, _, _, _)
ExpandStrChunks(value, n, result, bib_variables, bib_const_map, order) ==
    IF n > Len(value) THEN Ok(result)
    ELSE LET chunck == value[n] IN
         IF chunck.type = "Str"
         THEN ExpandStrChunks(value, n + 1, result \o chunck.v,
                              bib_variables, bib_const_map, order)
         ELSE LET var == IterFind(chunck.v, bib_variables, order) IN
              IF var.kind = "Some"
              THEN ExpandStrChunks(value, n + 1, result \o var.v[2],
                                   bib_variables, bib_const_map, order)
              ELSE LET res == ConstMapGet(bib_const_map, chunck.v) IN
                   IF res.kind = "Some"
                   THEN ExpandStrChunks(value, n + 1, result \o res.v,
                                        bib_variables, bib_const_map, order)
                   ELSE StringVariableNotFound(chunck.v)

ExpandStrAbbreviations(value, bib_variables, bib_const_map, order) ==
    ExpandStrChunks(value, 1, "", bib_variables, bib_const_map, order)

(***************************************************************************)
(* parse, lines 55-62: the tag loop of one Bibliography entry.             *)
(***************************************************************************)
\* Mutant: the key is inserted as declared.
TagKey_AsDeclared(tag) == tag.key

\* let key = tag.key.to_lowercase()
TagKey(tag) == ToLowercase(tag.key)

RECURSIVE NewTags(_, _, _, _, _, _)
NewTags(tags, n, new_tags, bib_variables, bib_const_map, order) ==
    IF n > Len(tags) THEN Ok(new_tags)
    ELSE LET tag == tags[n]
             key == TagKey(tag)
             val == ExpandStrAbbreviations(tag.value, bib_variables,
                                           bib_const_map, order)
         IN IF val.kind # "Ok" THEN val
            ELSE NewTags(tags, n + 1, MapInsert(new_tags, key, val.v),
                         bib_variables, bib_const_map, order)

(***************************************************************************)
(* Raw entry streams given to parse.                                       *)
(***************************************************************************)
\* Variable entries of the variable-resolver inputs: forward references,
\* chains, cycles, repeated names, a month abbreviation, and a name ("a") that
\* no entry declares.
VarKeys == {"A", "B", "jan"}
VarValues ==
    { <<Str("y")>>,
      <<Str("x"), Abbreviation("B")>>,
      <<Abbreviation("A")>>,
      <<Abbreviation("jan")>>,
      <<Abbreviation("a"), Abbreviation("A")>> }
VarPool == {Variable(KeyValue(k, v)) : k \in VarKeys, v \in VarValues}

\* What follows the Variable entries of a variable-resolver input.
VarTail == <<Preamble(<<Abbreviation("A"), Str("-"), Abbreviation("jan")>>)>>

\* Entries of the document-builder inputs.
DocPool ==
    { Variable(KeyValue("A", <<Str("x")>>)),
      Variable(KeyValue("jan", <<Str("z"), Abbreviation("A")>>)),
      Comment("c1"),
      Comment("c2"),
      Preamble(<<Abbreviation("A"), Str("p")>>),
      Preamble(<<Abbreviation("jan"), Abbreviation("may")>>),
      Preamble(<<Str("q"), Abbreviation("Jan")>>),
      BibliographyEntry("article", "k1",
          << KeyValue(<<"A", "u">>, <<Abbreviation("A")>>),
             KeyValue(<<"a", "u">>, <<Str("s"), Abbreviation("jan")>>) >>),
      BibliographyEntry("Book", "K2",
          << KeyValue(<<"a", "U">>, <<Abbreviation("dec")>>),
             KeyValue(<<"t">>, <<Str("t")>>),
             KeyValue(<<"A", "U">>, <<Abbreviation("jan")>>) >>),
      BibliographyEntry("misc", "k3",
          << KeyValue(<<"t">>, <<Str("t")>>),
             KeyValue(<<"T">>, <<Abbreviation("U")>>) >>) }

SeqsUpTo(S, n) == UNION {[1..m -> S] : m \in 0..n}

VarStreams == {vs \o VarTail : vs \in SeqsUpTo(VarPool, MaxVars)}
DocStreams == SeqsUpTo(DocPool, MaxEntries)
Streams == VarStreams \cup DocStreams

\* The streams that differ from es only in the order of its Variable entries.
ReorderVariables(es) ==
    LET pos == {n \in DOMAIN es : es[n].kind = "Variable"}
        perms == {p \in [pos -> pos] : \A a, b \in pos : a # b => p[a] # p[b]}
    IN {[n \in DOMAIN es |-> IF n \in pos THEN es[p[n]] ELSE es[n]] : p \in perms}

(***************************************************************************)
(* State.                                                                  *)
(***************************************************************************)
VARIABLES
    entries,    \* the Vec<Entry> raw_parse returned (parse, line 39)
    pc,         \* where parse is: "fill_constants", "fill_variables",
                \* "entries" (the loop of line 46) or "returned"
    i,          \* index of the loop that is running
    bibtex,     \* the Bibtex under construction (parse, line 41)
    result,     \* what parse returned: NoResult until it returns
    prev        \* the stream and the result of an earlier call of parse

vars == <<entries, pc, i, bibtex, result, prev>>

\* Bibtex::default()
BibtexDefault ==
    [comments |-> <<>>, preambles |-> <<>>, const_map |-> EmptyMap,
     variables |-> EmptyMap, bibliographies |-> <<>>]

NoResult == [kind |-> "NoResult"]
NoRun == [kind |-> "NoRun"]

Init ==
    /\ entries \in Streams
    /\ pc = "fill_constants"
    /\ i = 1
    /\ bibtex = BibtexDefault
    /\ result = NoResult
    /\ prev = NoRun

(***************************************************************************)
(* fill_constants                                                          *)
(***************************************************************************)
RECURSIVE InsertMonths(_, _)
InsertMonths(const_map, n) ==
    IF n > Len(TABLE_MONTHS) THEN const_map
    ELSE InsertMonths(MapInsert(const_map, TABLE_MONTHS[n][1], TABLE_MONTHS[n][2]),
                      n + 1)

FillConstants ==
    /\ pc = "fill_constants"
    /\ bibtex' = [bibtex EXCEPT !.const_map = InsertMonths(@, 1)]
    /\ pc' = "fill_variables"
    /\ i' = 1
    /\ UNCHANGED <<entries, result, prev>>

(***************************************************************************)
(* fill_variables: one step per iteration of the loop of lines 117-122.    *)
(* An expansion that does not return leaves no step to take.               *)
(***************************************************************************)
FillVariablesInsert ==
    /\ pc = "fill_variables"
    /\ LET variables == VariablesOf(entries) IN
       /\ i <= Len(variables)
       /\ LET var == variables[i]
              val == ExpandVariable(variables, i)
          IN /\ val.kind = "Ok"
             /\ bibtex' = [bibtex EXCEPT
                             !.variables = MapInsert(@, var.key, val.v)]
    /\ i' = i + 1
    /\ UNCHANGED <<entries, pc, result, prev>>

FillVariablesErr ==
    /\ pc = "fill_variables"
    /\ LET variables == VariablesOf(entries) IN
       /\ i <= Len(variables)
       /\ LET val == ExpandVariable(variables, i)
          IN /\ val.kind = "Err"
             /\ result' = val
    /\ pc' = "returned"
    /\ bibtex' = BibtexDefault
    /\ UNCHANGED <<entries, i, prev>>

FillVariablesEnd ==
    /\ pc = "fill_variables"
    /\ i > Len(VariablesOf(entries))
    /\ pc' = "entries"
    /\ i' = 1
    /\ UNCHANGED <<entries, bibtex, result, prev>>

(***************************************************************************)
(* parse, lines 46-69: one step per entry, one action per match arm.       *)
(***************************************************************************)
EntryVariable ==
    /\ pc = "entries"
    /\ i <= Len(entries)
    /\ entries[i].kind = "Variable"
    /\ i' = i + 1
    /\ UNCHANGED <<entries, pc, bibtex, result, prev>>

\* Mutant: the comment is inserted in front of the earlier ones.
EntryComment_InFront ==
    /\ pc = "entries"
    /\ i <= Len(entries)
    /\ entries[i].kind = "Comment"
    /\ bibtex' = [bibtex EXCEPT !.comments = <<entries[i].text>> \o @]
    /\ i' = i + 1
    /\ UNCHANGED <<entries, pc, result, prev>>

EntryComment ==
    /\ pc = "entries"
    /\ i <= Len(entries)
    /\ entries[i].kind = "Comment"
    /\ bibtex' = [bibtex EXCEPT !.comments = Append(@, entries[i].text)]
    /\ i' = i + 1
    /\ UNCHANGED <<entries, pc, result, prev>>

EntryPreamble ==
    /\ pc = "entries"
    /\ i <= Len(entries)
    /\ entries[i].kind = "Preamble"
    /\ \E order \in IterationOrders(bibtex.variables) :
         LET new_val == ExpandStrAbbreviations(entries[i].value, bibtex.variables,
                                               bibtex.const_map, order)
         IN IF new_val.kind = "Ok"
            THEN /\ bibtex' = [bibtex EXCEPT !.preambles = Append(@, new_val.v)]
                 /\ i' = i + 1
                 /\ UNCHANGED <<pc, result>>
            ELSE /\ result' = new_val
                 /\ pc' = "returned"
                 /\ bibtex' = BibtexDefault
                 /\ UNCHANGED i
    /\ UNCHANGED <<entries, prev>>

EntryBibliography ==
    /\ pc = "entries"
    /\ i <= Len(entries)
    /\ entries[i].kind = "Bibliography"
    /\ \E order \in IterationOrders(bibtex.variables) :
         LET new_tags == NewTags(entries[i].tags, 1, EmptyMap, bibtex.variables,
                                 bibtex.const_map, order)
         IN IF new_tags.kind = "Ok"
            THEN /\ bibtex' = [bibtex EXCEPT !.bibliographies =
                                 Append(@, Bibliography(entries[i].entry_t,
                                                        entries[i].citation_key,
                                                        new_tags.v))]
                 /\ i' = i + 1
                 /\ UNCHANGED <<pc, result>>
            ELSE /\ result' = new_tags
                 /\ pc' = "returned"
                 /\ bibtex' = BibtexDefault
                 /\ UNCHANGED i
    /\ UNCHANGED <<entries, prev>>

\* Ok(bibtex), line 69: the Bibtex is moved into the result.
ParseOk ==
    /\ pc = "entries"
    /\ i > Len(entries)
    /\ result' = Ok(bibtex)
    /\ pc' = "returned"
    /\ bibtex' = BibtexDefault
    /\ UNCHANGED <<entries, i, prev>>

(***************************************************************************)
(* The caller parses again, the same stream or one whose Variable entries  *)
(* are in another order; the earlier stream and result are kept.           *)
(***************************************************************************)
Reparse ==
    /\ pc = "returned"
    /\ prev = NoRun
    /\ prev' = [kind |-> "Run", entries |-> entries, result |-> result]
    /\ entries' \in ReorderVariables(entries)
    /\ pc' = "fill_constants"
    /\ i' = 1
    /\ bibtex' = BibtexDefault
    /\ result' = NoResult

Next ==
    \/ FillConstants
    \/ FillVariablesInsert
    \/ FillVariablesErr
    \/ FillVariablesEnd
    \/ EntryVariable
    \/ EntryComment
    \/ EntryPreamble
    \/ EntryBibliography
    \/ ParseOk
    \/ Reparse

Spec == Init /\ [][Next]_vars

(***************************************************************************)
(* Vocabulary of the properties.                                           *)
(***************************************************************************)
Returned == pc = "returned"
Succeeded == result.kind = "Ok"
Failed == result.kind = "Err"

Decls == VariablesOf(entries)
DeclaredNames == {Decls[n].key : n \in DOMAIN Decls}
DistinctNames == \A a, b \in DOMAIN Decls : a # b => Decls[a].key # Decls[b].key

MonthNames == {TABLE_MONTHS[n][1] : n \in DOMAIN TABLE_MONTHS}
MonthText(m) == TABLE_MONTHS[CHOOSE n \in DOMAIN TABLE_MONTHS : TABLE_MONTHS[n][1] = m][2]

\* The names the Abbreviation fragments of a value refer to.
AbbrNames(value) ==
    {value[n].v : n \in {m \in DOMAIN value : value[m].type = "Abbreviation"}}

\* The text of a value when a name stands for map[name] and, if map has no
\* such name, for the month it abbreviates.
RECURSIVE Substitute(_, _)
Substitute(value, map) ==
    IF value = <<>> THEN ""
    ELSE LET f == Head(value)
             t == IF f.type = "Str" THEN f.v
                  ELSE IF f.v \in DOMAIN map THEN map[f.v]
                  ELSE IF f.v \in MonthNames THEN MonthText(f.v)
                  ELSE ""
         IN t \o Substitute(Tail(value), map)

\* The first abbreviation of the values, in order, that neither map nor the
\* month table resolves.
RECURSIVE FirstUndefined(_, _)
FirstUndefined(values, map) ==
    IF values = <<>> THEN None
    ELSE LET value == Head(values)
             bad == {n \in DOMAIN value :
                        /\ value[n].type = "Abbreviation"
                        /\ value[n].v \notin DOMAIN map
                        /\ value[n].v \notin MonthNames}
         IN IF bad = {} THEN FirstUndefined(Tail(values), map)
            ELSE Some(value[CHOOSE n \in bad : \A m \in bad : n <= m].v)

\* The values of a Preamble or Bibliography entry, in the order of expansion.
ValuesOf(entry) ==
    IF entry.kind = "Preamble" THEN <<entry.value>>
    ELSE [n \in DOMAIN entry.tags |-> entry.tags[n].value]

\* The entries of one kind, in stream order.
RECURSIVE OfKind(_, _)
OfKind(es, kind) ==
    IF es = <<>> THEN <<>>
    ELSE IF Head(es).kind = kind THEN <<Head(es)>> \o OfKind(Tail(es), kind)
         ELSE OfKind(Tail(es), kind)

\* The lists of doc are those of the entries es, kind by kind and in order.
ListsFollow(doc, es, map) ==
    LET com == OfKind(es, "Comment")
        pre == OfKind(es, "Preamble")
        bib == OfKind(es, "Bibliography")
    IN /\ doc.comments = [n \in DOMAIN com |-> com[n].text]
       /\ doc.preambles = [n \in DOMAIN pre |-> Substitute(pre[n].value, map)]
       /\ Len(doc.bibliographies) = Len(bib)
       /\ \A n \in DOMAIN bib :
            /\ doc.bibliographies[n].entry_type = bib[n].entry_t
            /\ doc.bibliographies[n].citation_key = bib[n].citation_key

\* lower is key with every upper-case letter replaced by its lower-case letter.
FoldsTo(key, lower) ==
    /\ Len(lower) = Len(key)
    /\ \A n \in DOMAIN key :
         IF \E u \in DOMAIN UpperCase : UpperCase[u] = key[n]
         THEN \E u \in DOMAIN UpperCase :
                 UpperCase[u] = key[n] /\ LowerCase[u] = lower[n]
         ELSE lower[n] = key[n]

\* The tag of tags that is declared last among those whose names fold to lower.
LastTag(tags, lower) ==
    tags[CHOOSE n \in DOMAIN tags :
            /\ FoldsTo(tags[n].key, lower)
            /\ \A m \in DOMAIN tags : FoldsTo(tags[m].key, lower) => m <= n]

\* Names that no lookup scope of the stream resolves: in the variable
\* definitions, and in the preambles and tags.
UnresolvedInVariables ==
    UNION {AbbrNames(Decls[n].value) : n \in DOMAIN Decls} \ DeclaredNames
UnresolvedInDocument ==
    LET pre == OfKind(entries, "Preamble")
        bib == OfKind(entries, "Bibliography")
        values == {pre[n].value : n \in DOMAIN pre}
                  \cup UNION {{bib[n].tags[m].value : m \in DOMAIN bib[n].tags} :
                                 n \in DOMAIN bib}
    IN UNION {AbbrNames(v) : v \in values} \ (DeclaredNames \cup MonthNames)
Unresolved == UnresolvedInVariables \cup UnresolvedInDocument

\* Declaration a refers to declaration b: a names b's variable, and b is the
\* first declaration of that name (the one the resolver's lookup finds).
DeclEdges(decls) ==
    {e \in (DOMAIN decls) \X (DOMAIN decls) :
        /\ decls[e[2]].key \in AbbrNames(decls[e[1]].value)
        /\ \A m \in 1..(e[2] - 1) : decls[m].key # decls[e[2]].key}

\* Name a refers to name b in some declaration of a.
NameEdges(decls) ==
    {<<decls[n].key, b>> : n \in DOMAIN decls, b \in {decls[m].key : m \in DOMAIN decls}}
    \cap UNION {{<<decls[n].key, b>> : b \in AbbrNames(decls[n].value)} :
                   n \in DOMAIN decls}

\* The nodes that one or more edges lead to from the nodes of from.
Successors(from, edges) == {e[2] : e \in {d \in edges : d[1] \in from}}

RECURSIVE Closure(_, _)
Closure(reached, edges) ==
    LET more == reached \cup Successors(reached, edges)
    IN IF more = reached THEN reached ELSE Closure(more, edges)

ReachedFrom(a, edges) == Closure(Successors({a}, edges), edges)

Cyclic(edges) == \E e \in edges : e[1] \in ReachedFrom(e[1], edges)

\* Some declaration reaches itself through the declarations the lookup finds.
DeclCyclic == Cyclic(DeclEdges(Decls))
\* Some declared name reaches itself through references by name.
NameCyclic == Cyclic(NameEdges(Decls))

\* The expansion that fill_variables is waiting for does not return.
NeverReturns ==
    /\ pc = "fill_variables"
    /\ LET decls == Decls
       IN /\ i <= Len(decls)
          /\ ExpandVariable(decls, i) = NoReturn

(***************************************************************************)
(* C1.  When parse succeeds, the keys of the Document's variables are      *)
(* exactly the names the Variable entries declare, and the value of each   *)
(* is the text of a declaration of that name: its literal fragments, and   *)
(* for each abbreviation the text the Document gives the referenced        *)
(* variable, concatenated in the declared order.                           *)
(***************************************************************************)
C1_VariablesFullyExpanded ==
    Succeeded =>
        /\ DOMAIN result.v.variables = DeclaredNames
        /\ \A name \in DeclaredNames :
             \E n \in DOMAIN Decls :
                /\ Decls[n].key = name
                /\ result.v.variables[name] =
                       Substitute(Decls[n].value, result.v.variables)

(***************************************************************************)
(* C2.  When the Variable entries have distinct names, parsing the stream  *)
(* with its Variable entries in another order returns as the first parse   *)
(* did: an error both times, or Documents with the same variables mapping. *)
(***************************************************************************)
C2_OrderIndependent ==
    (Returned /\ prev.kind = "Run" /\ DistinctNames) =>
        /\ result.kind = prev.result.kind
        /\ Succeeded => result.v.variables = prev.result.v.variables

\* A = "x" # B declared before B = "y", parsed after the stream that declares
\* B first: A is "xy".
C2_Witness ==
    /\ Returned /\ prev.kind = "Run" /\ Succeeded
    /\ Decls = << KeyValue("A", <<Str("x"), Abbreviation("B")>>),
                  KeyValue("B", <<Str("y")>>) >>
    /\ VariablesOf(prev.entries) =
           << KeyValue("B", <<Str("y")>>),
              KeyValue("A", <<Str("x"), Abbreviation("B")>>) >>
    /\ result.v.variables["A"] = "xy"
    /\ result.v.variables["B"] = "y"

(***************************************************************************)
(* C3.  Expanding a preamble or the tags of a bibliography, a name is the  *)
(* text of the resolved variable of exactly that name if there is one,     *)
(* else the month it abbreviates in the 12-entry table, and parse returns  *)
(* UndefinedVariable(name) for the first name that is neither.             *)
(***************************************************************************)
C3_LookupOrder ==
    [][(pc = "entries" /\ i <= Len(entries)
          /\ entries[i].kind \in {"Preamble", "Bibliography"}) =>
        LET entry == entries[i]
            undefined == FirstUndefined(ValuesOf(entry), bibtex.variables)
        IN /\ Cardinality(DOMAIN bibtex.const_map) = 12
           /\ undefined.kind = "Some" =>
                result' = StringVariableNotFound(undefined.v)
           /\ (undefined.kind = "None" /\ entry.kind = "Preamble") =>
                /\ result' = NoResult
                /\ bibtex'.preambles =
                     Append(bibtex.preambles,
                            Substitute(entry.value, bibtex.variables))
           /\ (undefined.kind = "None" /\ entry.kind = "Bibliography") =>
                /\ result' = NoResult
                /\ LET tags == bibtex'.bibliographies[Len(bibtex'.bibliographies)].tags
                   IN \A key \in DOMAIN tags :
                        tags[key] = Substitute(LastTag(entry.tags, key).value,
                                               bibtex.variables)
      ]_vars

\* A user variable jan shadows the month while may is taken from the table.
C3_Witness ==
    /\ Succeeded
    /\ "jan" \in DOMAIN result.v.variables
    /\ \E n \in DOMAIN entries :
         /\ entries[n].kind = "Preamble"
         /\ entries[n].value = <<Abbreviation("jan"), Abbreviation("may")>>
    /\ result.v.preambles = <<"zxMay">>

(***************************************************************************)
(* C4.  In every Bibliography of a Document the tag keys are lower case,   *)
(* they are exactly the lower-cased names of the declared tags, and the    *)
(* value of a key is the expansion of the tag declared last among the      *)
(* tags whose names fold to that key.                                      *)
(***************************************************************************)
C4_TagKeysFolded ==
    Succeeded =>
        LET declared == OfKind(entries, "Bibliography")
            built == result.v.bibliographies
        IN /\ Len(built) = Len(declared)
           /\ \A b \in DOMAIN built :
                /\ \A key \in DOMAIN built[b].tags :
                     /\ \A n \in DOMAIN key :
                          \A u \in DOMAIN UpperCase : key[n] # UpperCase[u]
                     /\ \E n \in DOMAIN declared[b].tags :
                          FoldsTo(declared[b].tags[n].key, key)
                     /\ built[b].tags[key] =
                          Substitute(LastTag(declared[b].tags, key).value,
                                     result.v.variables)
                /\ \A n \in DOMAIN declared[b].tags :
                     \E key \in DOMAIN built[b].tags :
                        FoldsTo(declared[b].tags[n].key, key)

\* Tags aU, t and AU: two keys, and au holds the value of AU, declared last.
C4_Witness ==
    /\ Succeeded
    /\ \E b \in DOMAIN result.v.bibliographies :
         /\ result.v.bibliographies[b].citation_key = "K2"
         /\ DOMAIN result.v.bibliographies[b].tags = {<<"a", "u">>, <<"t">>}
         /\ result.v.bibliographies[b].tags[<<"a", "u">>] = "January"

(***************************************************************************)
(* C5.  The comments of a Document are the Comment entries of the stream   *)
(* in stream order, its preambles the expansions of the Preamble entries   *)
(* in stream order, its bibliographies one record for each Bibliography    *)
(* entry in stream order, with the entry type and citation key as          *)
(* declared; during the pass the same holds of the entries passed so far.  *)
(***************************************************************************)
C5_OrderPreserved ==
    /\ Succeeded => ListsFollow(result.v, entries, result.v.variables)
    /\ pc = "entries" =>
         ListsFollow(bibtex, SubSeq(entries, 1, i - 1), bibtex.variables)

\* Two comments around a preamble, or around a bibliography.
C5_Witness ==
    /\ Succeeded
    /\ result.v.comments = <<"c2", "c1">>
    /\ entries[2].kind \in {"Preamble", "Bibliography"}
    /\ Len(result.v.preambles) + Len(result.v.bibliographies) = 1

(***************************************************************************)
(* C6 as stated.  If any abbreviation of the stream cannot be resolved in  *)
(* its lookup scope, parse returns an UndefinedVariable error and no       *)
(* Document: it yields no Document, what it returns is an error, and it    *)
(* is never left waiting for an expansion that does not return.            *)
(***************************************************************************)
C6_ErrorWheneverUnresolved ==
    Unresolved # {} =>
        /\ ~Succeeded
        /\ Returned => Failed
        /\ ~NeverReturns

(***************************************************************************)
(* C6 as amended.  parse returns either a Document or an error and         *)
(* nothing before it returns.  If any abbreviation of a variable           *)
(* definition, a preamble or a tag is unresolved in its lookup scope,      *)
(* wherever it is and whether or not the definition is used, parse         *)
(* returns no Document: it returns UndefinedVariable for such a name,      *)
(* dropping the Bibtex built so far, unless a declaration reaches itself   *)
(* and its expansion, which does not return, is entered first.  A          *)
(* Document is returned only when every fragment resolved, and then it     *)
(* holds every entry.                                                      *)
(***************************************************************************)
C6_AllOrNothing ==
    /\ Returned <=> (Succeeded \/ Failed)
    /\ ~Returned => result = NoResult
    /\ Failed => /\ Unresolved # {}
                 /\ result.name \in Unresolved
                 /\ bibtex = BibtexDefault
    /\ Succeeded =>
         /\ Unresolved = {}
         /\ DOMAIN result.v.variables = DeclaredNames
         /\ Len(result.v.comments) = Len(OfKind(entries, "Comment"))
         /\ Len(result.v.preambles) = Len(OfKind(entries, "Preamble"))
         /\ Len(result.v.bibliographies) = Len(OfKind(entries, "Bibliography"))
    /\ (NeverReturns /\ Unresolved # {}) => DeclCyclic

\* The third entry fails after a comment and a variable were processed.
C6_Witness ==
    /\ Failed
    /\ result = StringVariableNotFound("Jan")
    /\ i = 3
    /\ entries[1].kind = "Comment"
    /\ entries[2].kind = "Variable"

(***************************************************************************)
(* C7 as stated.  If a declared variable reaches itself through            *)
(* abbreviation references, parse neither returns a Document nor an        *)
(* error.                                                                  *)
(***************************************************************************)
C7_CycleNeverReturns ==
    NameCyclic => result = NoResult

(***************************************************************************)
(* C7 as amended.  If a declaration reaches itself through abbreviation    *)
(* references, a name standing for its first declaration, parse never      *)
(* returns a Document; it does not return at all when every name that the  *)
(* variable definitions refer to is declared, and otherwise it may return  *)
(* UndefinedVariable for a name expanded before the cycle is entered.      *)
(* An expansion that does not return is that of a declaration which        *)
(* reaches a cycle.  When no declared name reaches itself, every           *)
(* expansion returns.                                                      *)
(***************************************************************************)
C7_CycleNeverYieldsDocument ==
    /\ (Succeeded \/ (Returned /\ UnresolvedInVariables = {})) => ~DeclCyclic
    /\ NeverReturns =>
         /\ result = NoResult
         /\ LET edges == DeclEdges(Decls)
            IN \E c \in {i} \cup ReachedFrom(i, edges) : c \in ReachedFrom(c, edges)
         /\ NameCyclic

\* The expansion of A = "x" # B, with B = A, has not returned and never will.
C7_Witness ==
    /\ pc = "fill_variables"
    /\ ~ENABLED Next
    /\ result = NoResult
    /\ Decls = << KeyValue("A", <<Str("x"), Abbreviation("B")>>),
                  KeyValue("B", <<Abbreviation("A")>>) >>
    /\ entries[3].kind = "Preamble"

(***************************************************************************)
(* C8.  Parsing the same stream again returns what the first parse         *)
(* returned, the same error or an equal Document, whatever the order in    *)
(* which the variables mapping yields its entries.                         *)
(***************************************************************************)
C8_Deterministic ==
    (Returned /\ prev.kind = "Run" /\ prev.entries = entries) =>
        result = prev.result

\* A preamble expanded twice against a mapping of two variables.
C8_Witness ==
    /\ Returned /\ prev.kind = "Run" /\ prev.entries = entries
    /\ Succeeded
    /\ Cardinality(DOMAIN result.v.variables) = 2
    /\ result.v.preambles = <<"zxMay">>

(***************************************************************************)
(* C9 as stated.  A variable definition that contains a month              *)
(* abbreviation which no Variable entry declares makes parse fail with     *)
(* UndefinedVariable of that abbreviation.                                 *)
(***************************************************************************)
C9_MonthInDefinitionFails ==
    \A m \in MonthNames \cap UnresolvedInVariables :
        /\ ~Succeeded
        /\ Returned => result = StringVariableNotFound(m)

(***************************************************************************)
(* C9 as amended.  In a variable definition a name is looked up among the  *)
(* declared variables only, never in the month table: when a definition    *)
(* contains a month abbreviation that no Variable entry declares, parse    *)
(* returns no Document; if it returns, it returns UndefinedVariable for a  *)
(* name that a variable definition uses and no Variable entry declares,    *)
(* which is that abbreviation when it is the only such name.               *)
(***************************************************************************)
C9_VariableScope ==
    (Succeeded \/ Returned) =>
        \A m \in MonthNames \cap UnresolvedInVariables :
            /\ ~Succeeded
            /\ Returned => (Failed /\ result.name \in UnresolvedInVariables)
            /\ (Returned /\ UnresolvedInVariables = {m}) =>
                  result = StringVariableNotFound(m)

\* B = jan fails although the preamble of the stream could use the month.
C9_Witness ==
    /\ result = StringVariableNotFound("jan")
    /\ "jan" \notin DeclaredNames
    /\ \E n \in DOMAIN Decls : Decls[n].value = <<Abbreviation("jan")>>
    /\ \E n \in DOMAIN entries :
         /\ entries[n].kind = "Preamble"
         /\ "jan" \in AbbrNames(entries[n].value)

(***************************************************************************)
(* C10.  When parse succeeds, an abbreviation N in a variable definition   *)
(* contributes (expand_variables_value, line 141) the text that the same   *)
(* abbreviation contributes in a preamble or a tag                         *)
(* (expand_str_abbreviations), which is variables()[N].                    *)
(***************************************************************************)
C10_OneTextPerName ==
    Succeeded =>
        \A n \in DOMAIN Decls : \A name \in AbbrNames(Decls[n].value) :
            \A order \in IterationOrders(result.v.variables) :
                /\ ExpandVariablesValue(FindVariable(name, Decls).v.value, Decls, 1)
                     = ExpandStrAbbreviations(<<Abbreviation(name)>>,
                           result.v.variables, result.v.const_map, order)
                /\ ExpandVariablesValue(FindVariable(name, Decls).v.value, Decls, 1)
                     = Ok(result.v.variables[name])

====
